---- MODULE Spec2Model ----
(***************************************************************************)
(* Model of imports_exports.py: the Transaction record, the                *)
(* ImportExportSystem store (add / update / delete / search) and its       *)
(* filter_transactions query.                                              *)
(*                                                                         *)
(* transactions is the Store, rows the rows of the CSV file the insight     *)
(* functions read, session the local variables of main; pc and last record *)
(* where the caller is and what the last call was.                         *)
(*                                                                         *)
(* Python values that reach a truthiness test or a comparison are tagged   *)
(* (None, number, string, datetime) so that `if value:` and                *)
(* `t.value < min_value` behave as the interpreter makes them behave.      *)
(* Strings that are lower-cased by the code are sequences of characters.   *)
(***************************************************************************)
EXTENDS Integers, Sequences, FiniteSets, TLC

VARIABLES transactions, pc, last, rows, session

vars == <<transactions, pc, last, rows, session>>

(***************************************************************************)
(* Bounds of the model.                                                    *)
(***************************************************************************)
\* longest Store the session specification builds
MaxLen == 2
\* longest Store the filter specification starts from
MaxFilterLen == 2
\* longest list that is sorted or summarised
MaxReportLen == 3
\* most rows of the CSV file the insight functions read
MaxRows == 3
\* most Transactions in the Store of a menu session
MaxMenuLen == 2

\* transaction ids: two ids that differ only in letter case
IDs == {<<"a">>, <<"A">>}
\* country names handed to add_transaction and update_transaction
Countries == {<<"U">>}
\* product names handed to add_transaction and update_transaction
Products == {<<"T">>}
\* values handed to add_transaction and update_transaction
Values == {0, 1}
\* dates (day numbers) handed to add_transaction and update_transaction
Dates == {1, 2}

(***************************************************************************)
(* Python values.                                                          *)
(***************************************************************************)
PyNone == [tag |-> "none", n |-> 0, s |-> <<>>]
Num(x) == [tag |-> "num", n |-> x, s |-> <<>>]
Str(cs) == [tag |-> "str", n |-> 0, s |-> cs]
Date(d) == [tag |-> "date", n |-> d, s |-> <<>>]

\* bool(v): None, 0 and "" are false; a datetime is always true
Truthy(v) ==
    CASE v.tag = "none" -> FALSE
      [] v.tag = "num"  -> v.n # 0
      [] v.tag = "str"  -> v.s # <<>>
      [] v.tag = "date" -> TRUE

\* str.lower() on the characters the model uses
LowerChar(ch) ==
    CASE ch = "A" -> "a"
      [] ch = "E" -> "e"
      [] ch = "F" -> "f"
      [] ch = "I" -> "i"
      [] ch = "U" -> "u"
      [] ch = "S" -> "s"
      [] ch = "T" -> "t"
      [] OTHER    -> ch

\* variant of Lower that leaves the case as it is
LowerKeepingCase(cs) == cs

Lower(cs) == [i \in DOMAIN cs |-> LowerChar(cs[i])]

\* date_range: None, or a (start, end) tuple (a non-empty tuple is true)
NoRange == [given |-> FALSE, start |-> 0, end |-> 0]
Range(a, b) == [given |-> TRUE, start |-> a, end |-> b]

(***************************************************************************)
(* Transaction.__init__(self, transaction_ID, product, country, value,     *)
(* date): parameters in the order of the source.                           *)
(***************************************************************************)
Transaction(transaction_ID, product, country, value, date) ==
    [transaction_ID |-> transaction_ID,
     product        |-> product,
     country        |-> country,
     value          |-> value,
     date           |-> date]

(***************************************************************************)
(* ImportExportSystem.add_transaction(transaction_ID, country, product,    *)
(* value, date): builds the Transaction positionally and appends it.       *)
(***************************************************************************)
add_transaction(ts, transaction_ID, country, product, value, date) ==
    Append(ts, Transaction(transaction_ID, country, product, value, date))

\* index of the first Transaction with the id, 0 when there is none
RECURSIVE FirstIndex(_, _, _)
FirstIndex(ts, transaction_ID, i) ==
    IF i > Len(ts) THEN 0
    ELSE IF ts[i].transaction_ID = transaction_ID THEN i
    ELSE FirstIndex(ts, transaction_ID, i + 1)

(***************************************************************************)
(* ImportExportSystem.update_transaction: on the first match, each         *)
(* attribute is overwritten when its argument is truthy.                   *)
(***************************************************************************)
UpdateFields(t, country, product, value, date) ==
    [transaction_ID |-> t.transaction_ID,
     country |-> IF Truthy(country) THEN country.s ELSE t.country,
     product |-> IF Truthy(product) THEN product.s ELSE t.product,
     value   |-> IF Truthy(value) THEN value.n ELSE t.value,
     date    |-> IF Truthy(date) THEN date.n ELSE t.date]

update_transaction(ts, transaction_ID, country, product, value, date) ==
    LET i == FirstIndex(ts, transaction_ID, 1) IN
    IF i = 0 THEN [ret |-> FALSE, transactions |-> ts]
    ELSE [ret |-> TRUE,
          transactions |->
              [ts EXCEPT ![i] = UpdateFields(ts[i], country, product, value, date)]]

\* list.remove of the element found at index i
RemoveAt(ts, i) == SubSeq(ts, 1, i - 1) \o SubSeq(ts, i + 1, Len(ts))

\* variant of delete_transaction that drops every Transaction with the id
delete_transaction_all(ts, transaction_ID) ==
    LET kept == SelectSeq(ts, LAMBDA t : t.transaction_ID # transaction_ID) IN
    [ret |-> Len(kept) < Len(ts), transactions |-> kept]

(***************************************************************************)
(* ImportExportSystem.delete_transaction                                   *)
(***************************************************************************)
delete_transaction(ts, transaction_ID) ==
    LET i == FirstIndex(ts, transaction_ID, 1) IN
    IF i = 0 THEN [ret |-> FALSE, transactions |-> ts]
    ELSE [ret |-> TRUE, transactions |-> RemoveAt(ts, i)]

\* variant of search_transaction_by_id that compares ids ignoring case
search_transaction_ignoring_case(ts, transaction_ID) ==
    LET lowered == [i \in DOMAIN ts |->
                       [ts[i] EXCEPT !.transaction_ID = Lower(ts[i].transaction_ID)]]
        i == FirstIndex(lowered, Lower(transaction_ID), 1) IN
    IF i = 0 THEN <<>> ELSE <<ts[i]>>

(***************************************************************************)
(* ImportExportSystem.search_transaction_by_id: <<t>> for the Transaction  *)
(* found, <<>> for None.                                                   *)
(***************************************************************************)
search_transaction_by_id(ts, transaction_ID) ==
    LET i == FirstIndex(ts, transaction_ID, 1) IN
    IF i = 0 THEN <<>> ELSE <<ts[i]>>

(***************************************************************************)
(* ImportExportSystem.filter_transactions                                  *)
(***************************************************************************)
\* variant of FilterOutcome that unpacks date_range without testing it
FilterOutcomeUnguardedRange(t, date_range, country, product, min_value, max_value) ==
    IF ~date_range.given
    THEN "TypeError"
    ELSE IF ~(date_range.start <= t.date /\ t.date <= date_range.end)
    THEN "continue"
    ELSE IF Truthy(country) /\ Lower(t.country) # Lower(country.s)
    THEN "continue"
    ELSE IF Truthy(product) /\ Lower(t.product) # Lower(product.s)
    THEN "continue"
    ELSE IF Truthy(min_value) /\ t.value < min_value.n
    THEN "continue"
    ELSE IF Truthy(max_value) /\ t.value > max_value.n
    THEN "continue"
    ELSE "append"

\* variant of FilterOutcome that skips a Transaction only when both its
\* country and its product fail their criteria
FilterOutcomeEitherName(t, date_range, country, product, min_value, max_value) ==
    IF date_range.given /\ ~(date_range.start <= t.date /\ t.date <= date_range.end)
    THEN "continue"
    ELSE IF /\ Truthy(country) /\ Lower(t.country) # Lower(country.s)
            /\ Truthy(product) /\ Lower(t.product) # Lower(product.s)
    THEN "continue"
    ELSE IF Truthy(country) /\ ~Truthy(product) /\ Lower(t.country) # Lower(country.s)
    THEN "continue"
    ELSE IF Truthy(product) /\ ~Truthy(country) /\ Lower(t.product) # Lower(product.s)
    THEN "continue"
    ELSE IF Truthy(min_value) /\ min_value.tag = "str"
    THEN "TypeError"
    ELSE IF Truthy(min_value) /\ t.value < min_value.n
    THEN "continue"
    ELSE IF Truthy(max_value) /\ max_value.tag = "str"
    THEN "TypeError"
    ELSE IF Truthy(max_value) /\ t.value > max_value.n
    THEN "continue"
    ELSE "append"

\* variant of FilterOutcome whose date range excludes its start date
FilterOutcomeOpenStart(t, date_range, country, product, min_value, max_value) ==
    IF date_range.given /\ ~(date_range.start < t.date /\ t.date <= date_range.end)
    THEN "continue"
    ELSE IF Truthy(country) /\ Lower(t.country) # Lower(country.s)
    THEN "continue"
    ELSE IF Truthy(product) /\ Lower(t.product) # Lower(product.s)
    THEN "continue"
    ELSE IF Truthy(min_value) /\ min_value.tag = "str"
    THEN "TypeError"
    ELSE IF Truthy(min_value) /\ t.value < min_value.n
    THEN "continue"
    ELSE IF Truthy(max_value) /\ max_value.tag = "str"
    THEN "TypeError"
    ELSE IF Truthy(max_value) /\ t.value > max_value.n
    THEN "continue"
    ELSE "append"

\* what the loop body does with one Transaction
FilterOutcome(t, date_range, country, product, min_value, max_value) ==
    IF date_range.given /\ ~(date_range.start <= t.date /\ t.date <= date_range.end)
    THEN "continue"
    ELSE IF Truthy(country) /\ Lower(t.country) # Lower(country.s)
    THEN "continue"
    ELSE IF Truthy(product) /\ Lower(t.product) # Lower(product.s)
    THEN "continue"
    ELSE IF Truthy(min_value) /\ min_value.tag = "str"
    THEN "TypeError"
    ELSE IF Truthy(min_value) /\ t.value < min_value.n
    THEN "continue"
    ELSE IF Truthy(max_value) /\ max_value.tag = "str"
    THEN "TypeError"
    ELSE IF Truthy(max_value) /\ t.value > max_value.n
    THEN "continue"
    ELSE "append"

RECURSIVE FilterLoop(_, _, _, _, _, _, _, _)
FilterLoop(ts, i, acc, date_range, country, product, min_value, max_value) ==
    IF i > Len(ts) THEN [kind |-> "list", list |-> acc]
    ELSE LET o == FilterOutcome(ts[i], date_range, country, product,
                                min_value, max_value) IN
         IF o = "TypeError" THEN [kind |-> "TypeError", list |-> <<>>]
         ELSE FilterLoop(ts, i + 1,
                         IF o = "append" THEN Append(acc, ts[i]) ELSE acc,
                         date_range, country, product, min_value, max_value)

filter_transactions(ts, date_range, country, product, min_value, max_value) ==
    FilterLoop(ts, 1, <<>>, date_range, country, product, min_value, max_value)

(***************************************************************************)
(* The record of the last call: operation, arguments, result and the       *)
(* Store as it was before the call.                                        *)
(***************************************************************************)
NoArgs ==
    [transaction_ID |-> <<>>, country |-> PyNone, product |-> PyNone,
     value |-> PyNone, date |-> PyNone,
     date_range |-> NoRange, min_value |-> PyNone, max_value |-> PyNone,
     descending |-> FALSE,
     transactions |-> <<>>, date_str |-> <<>>, choice |-> <<>>]

\* a quotient of two numbers, kept as the pair it was computed from
Quotient(a, b) == [num |-> a, den |-> b]
NoSummary == [count |-> 0, total |-> 0, average |-> Quotient(0, 1)]

RetNone ==
    [kind |-> "None", b |-> FALSE, list |-> <<>>, summary |-> NoSummary,
     imports |-> <<>>, exports |-> <<>>, highest |-> <<>>]
RetBool(b) == [RetNone EXCEPT !.kind = "bool", !.b = b]
RetFound(l) ==
    IF l = <<>> THEN RetNone ELSE [RetNone EXCEPT !.kind = "Transaction", !.list = l]
RetFilter(r) == [RetNone EXCEPT !.kind = r.kind, !.list = r.list]

NoCall == [op |-> "none", args |-> NoArgs, ret |-> RetNone, pre |-> <<>>]

\* a Store with unique ids to start from
InitStores ==
    {<<>>,
     <<Transaction(<<"a">>, <<"T">>, <<"U">>, 1, 1)>>,
     <<Transaction(<<"a">>, <<"T">>, <<"U">>, 1, 1),
       Transaction(<<"A">>, <<"T">>, <<"U">>, 0, 2),
       Transaction(<<"b">>, <<"T">>, <<"U">>, 1, 2)>>}

\* main's local variables before its loop: filtered and date are not bound
NoSession ==
    [filtered_bound |-> FALSE, filtered |-> <<>>, filtered_created |-> FALSE,
     date_bound |-> FALSE, date |-> 0]

Init ==
    /\ transactions \in InitStores
    /\ pc = "ready"
    /\ last = NoCall
    /\ rows = <<>>
    /\ session = NoSession

\* arguments update_transaction is called with: omitted, empty or a value
OptCountries == {PyNone, Str(<<>>)} \cup {Str(x) : x \in Countries}
OptProducts == {PyNone, Str(<<>>)} \cup {Str(x) : x \in Products}
OptValues == {PyNone, Str(<<>>)} \cup {Num(x) : x \in Values}
OptDates == {PyNone} \cup {Date(d) : d \in Dates}

Add ==
    /\ pc = "ready"
    /\ Len(transactions) < MaxLen
    /\ \E id \in IDs, country \in Countries, product \in Products,
          value \in Values, date \in Dates :
        /\ transactions' = add_transaction(transactions, id, country, product, value, date)
        /\ last' = [op |-> "add",
                    args |-> [NoArgs EXCEPT !.transaction_ID = id,
                                            !.country = Str(country),
                                            !.product = Str(product),
                                            !.value = Num(value),
                                            !.date = Date(date)],
                    ret |-> RetNone,
                    pre |-> transactions]
    /\ pc' = "returned"
    /\ UNCHANGED <<rows, session>>

Update ==
    /\ pc = "ready"
    /\ \E id \in IDs, country \in OptCountries, product \in OptProducts,
          value \in OptValues, date \in OptDates :
        LET r == update_transaction(transactions, id, country, product, value, date) IN
        /\ transactions' = r.transactions
        /\ last' = [op |-> "update",
                    args |-> [NoArgs EXCEPT !.transaction_ID = id,
                                            !.country = country,
                                            !.product = product,
                                            !.value = value,
                                            !.date = date],
                    ret |-> RetBool(r.ret),
                    pre |-> transactions]
    /\ pc' = "returned"
    /\ UNCHANGED <<rows, session>>

Delete ==
    /\ pc = "ready"
    /\ \E id \in IDs :
        LET r == delete_transaction(transactions, id) IN
        /\ transactions' = r.transactions
        /\ last' = [op |-> "delete",
                    args |-> [NoArgs EXCEPT !.transaction_ID = id],
                    ret |-> RetBool(r.ret),
                    pre |-> transactions]
    /\ pc' = "returned"
    /\ UNCHANGED <<rows, session>>

Search ==
    /\ pc = "ready"
    /\ \E id \in IDs :
        /\ last' = [op |-> "search",
                    args |-> [NoArgs EXCEPT !.transaction_ID = id],
                    ret |-> RetFound(search_transaction_by_id(transactions, id)),
                    pre |-> transactions]
    /\ pc' = "returned"
    /\ UNCHANGED transactions
    /\ UNCHANGED <<rows, session>>

\* the caller takes the result and is ready for its next call
Return ==
    /\ pc = "returned"
    /\ pc' = "ready"
    /\ last' = NoCall
    /\ UNCHANGED <<transactions, rows, session>>

Next == Add \/ Update \/ Delete \/ Search \/ Return

Spec == Init /\ [][Next]_vars

(***************************************************************************)
(* The filter specification: filter_transactions applied to a Store drawn  *)
(* from a bounded set, with every combination of criteria.                 *)
(***************************************************************************)
\* the Transactions the filtered Stores are made of
FilterTransactions ==
    {Transaction(<<"a">>, <<"T">>, <<"U", "S">>, 1, 1),
     Transaction(<<"A">>, <<"t">>, <<"u", "s">>, 2, 2),
     Transaction(<<"b">>, <<"T">>, <<"U">>, 0, 1),
     Transaction(<<"c">>, <<"T", "S">>, <<"U", "S">>, 2, 1),
     Transaction(<<"d">>, <<"T">>, <<"U", "S">>, 1, 2)}

RECURSIVE SeqsUpTo(_, _)
SeqsUpTo(S, n) ==
    IF n = 0 THEN {<<>>}
    ELSE LET shorter == SeqsUpTo(S, n - 1) IN
         shorter \cup {Append(q, x) : q \in {r \in shorter : Len(r) = n - 1}, x \in S}

FilterStores == SeqsUpTo(FilterTransactions, MaxFilterLen)

\* the criteria filter_transactions is called with
RangeDates == {0, 1, 2}
FilterRanges == {NoRange} \cup {Range(a, b) : a \in RangeDates, b \in RangeDates}
FilterCountries ==
    {PyNone, Str(<<>>), Str(<<"U", "S">>), Str(<<"u", "s">>), Str(<<"U">>), Str(<<"u">>)}
FilterProducts == {PyNone, Str(<<>>), Str(<<"T">>), Str(<<"t">>)}
FilterBounds ==
    {PyNone, Str(<<>>), Str(<<"x">>), Num(0 - 1), Num(0), Num(1), Num(2)}

InitFilter ==
    /\ transactions \in FilterStores
    /\ pc = "ready"
    /\ last = NoCall
    /\ rows = <<>>
    /\ session = NoSession

Filter ==
    /\ pc = "ready"
    /\ \E date_range \in FilterRanges, country \in FilterCountries,
          product \in FilterProducts, min_value \in FilterBounds,
          max_value \in FilterBounds :
        /\ last' = [op |-> "filter",
                    args |-> [NoArgs EXCEPT !.date_range = date_range,
                                            !.country = country,
                                            !.product = product,
                                            !.min_value = min_value,
                                            !.max_value = max_value],
                    ret |-> RetFilter(filter_transactions(transactions, date_range,
                                          country, product, min_value, max_value)),
                    pre |-> transactions]
    /\ pc' = "returned"
    /\ UNCHANGED transactions
    /\ UNCHANGED <<rows, session>>

NextFilter == Filter \/ Return

SpecFilter == InitFilter /\ [][NextFilter]_vars

(***************************************************************************)
(* The combination specification: filter_transactions with criteria on     *)
(* several fields at once, over the same Stores.                           *)
(***************************************************************************)
CombinedRanges == {NoRange, Range(1, 1), Range(1, 2), Range(2, 2)}
CombinedCountries == {PyNone, Str(<<"u", "s">>), Str(<<"U">>)}
CombinedProducts == {PyNone, Str(<<>>), Str(<<"t">>)}
CombinedMinima == {PyNone, Num(0), Num(1), Num(2)}
CombinedMaxima == {PyNone, Num(0), Num(1)}

FilterCombined ==
    /\ pc = "ready"
    /\ \E date_range \in CombinedRanges, country \in CombinedCountries,
          product \in CombinedProducts, min_value \in CombinedMinima,
          max_value \in CombinedMaxima :
        /\ last' = [op |-> "filter",
                    args |-> [NoArgs EXCEPT !.date_range = date_range,
                                            !.country = country,
                                            !.product = product,
                                            !.min_value = min_value,
                                            !.max_value = max_value],
                    ret |-> RetFilter(filter_transactions(transactions, date_range,
                                          country, product, min_value, max_value)),
                    pre |-> transactions]
    /\ pc' = "returned"
    /\ UNCHANGED transactions
    /\ UNCHANGED <<rows, session>>

NextCombine == FilterCombined \/ Return

SpecCombine == InitFilter /\ [][NextCombine]_vars

(***************************************************************************)
(* sort_transactions_by_value and generate_transaction_summary, applied to *)
(* a list of Transactions drawn from the same bounded set.                 *)
(***************************************************************************)
Reverse(q) == [i \in DOMAIN q |-> q[Len(q) + 1 - i]]

\* t put into the sorted list q behind every element that is not greater
RECURSIVE InsertByValue(_, _)
InsertByValue(q, t) ==
    IF q = <<>> THEN <<t>>
    ELSE IF q[Len(q)].value <= t.value THEN Append(q, t)
    ELSE Append(InsertByValue(SubSeq(q, 1, Len(q) - 1), t), q[Len(q)])

\* list.sort(key=value): a stable ascending sort
RECURSIVE StableSort(_)
StableSort(q) ==
    IF q = <<>> THEN <<>>
    ELSE InsertByValue(StableSort(SubSeq(q, 1, Len(q) - 1)), q[Len(q)])

\* variant of sort_transactions_by_value that reverses the ascending result
sort_by_reversing(ts, descending) ==
    IF descending THEN Reverse(StableSort(ts)) ELSE StableSort(ts)

\* sorted(transactions, key=lambda x: x.value, reverse=descending): with
\* reverse the list is reversed before and after the stable sort
sort_transactions_by_value(ts, descending) ==
    IF descending THEN Reverse(StableSort(Reverse(ts))) ELSE StableSort(ts)

\* ImportExportSystem.total_trade_value: the loop adds from the left
RECURSIVE TotalFrom(_, _, _)
TotalFrom(ts, i, total_value) ==
    IF i > Len(ts) THEN total_value
    ELSE TotalFrom(ts, i + 1, total_value + ts[i].value)

total_trade_value(ts) == TotalFrom(ts, 1, 0)

\* variant of generate_transaction_summary that divides without a test
generate_summary_unguarded(ts) ==
    IF Len(ts) = 0
    THEN [kind |-> "ZeroDivisionError", summary |-> NoSummary]
    ELSE [kind |-> "list",
          summary |-> [count |-> Len(ts), total |-> total_trade_value(ts),
                       average |-> Quotient(total_trade_value(ts), Len(ts))]]

\* ImportExportSystem.generate_transaction_summary
generate_transaction_summary(ts) ==
    LET total_transactions == Len(ts)
        total_value == total_trade_value(ts)
        average_value == IF total_transactions # 0
                         THEN Quotient(total_value, total_transactions)
                         ELSE Quotient(0, 1)
    IN  [kind |-> "list",
         summary |-> [count |-> total_transactions, total |-> total_value,
                      average |-> average_value]]

Sort ==
    /\ pc = "ready"
    /\ \E descending \in BOOLEAN :
        last' = [op |-> "sort",
                 args |-> [NoArgs EXCEPT !.descending = descending],
                 ret |-> [RetNone EXCEPT
                            !.kind = "list",
                            !.list = sort_transactions_by_value(transactions, descending)],
                 pre |-> transactions]
    /\ pc' = "returned"
    /\ UNCHANGED <<transactions, rows, session>>

Summary ==
    /\ pc = "ready"
    /\ LET r == generate_transaction_summary(transactions) IN
       last' = [op |-> "summary",
                args |-> NoArgs,
                ret |-> [RetNone EXCEPT !.kind = r.kind, !.summary = r.summary],
                pre |-> transactions]
    /\ pc' = "returned"
    /\ UNCHANGED <<transactions, rows, session>>

NextReport == Sort \/ Summary \/ Return

ReportLists == SeqsUpTo(FilterTransactions, MaxReportLen)

InitReport ==
    /\ transactions \in ReportLists
    /\ pc = "ready"
    /\ last = NoCall
    /\ rows = <<>>
    /\ session = NoSession

SpecReport == InitReport /\ [][NextReport]_vars

(***************************************************************************)
(* The insight functions over the rows of the CSV file:                    *)
(* get_total_import_export_counts and show_highest_import_export.          *)
(***************************************************************************)
\* str.strip() for the blank the model uses
RECURSIVE Strip(_)
Strip(cs) ==
    IF cs = <<>> THEN cs
    ELSE IF cs[1] = " " THEN Strip(Tail(cs))
    ELSE IF cs[Len(cs)] = " " THEN Strip(SubSeq(cs, 1, Len(cs) - 1))
    ELSE cs

ImportText == <<"i", "m", "p", "o", "r", "t">>
ExportText == <<"e", "x", "p", "o", "r", "t">>

\* a defaultdict(int) is the sequence of its [key, count] entries in the
\* order in which the keys were inserted
HasKey(d, k) == \E i \in DOMAIN d : d[i].key = k

\* d[k] += 1: a key that is missing is inserted with 0 first
Increment(d, k) ==
    IF HasKey(d, k)
    THEN [i \in DOMAIN d |-> IF d[i].key = k
                             THEN [key |-> k, count |-> d[i].count + 1]
                             ELSE d[i]]
    ELSE Append(d, [key |-> k, count |-> 1])

RECURSIVE CountRows(_, _, _, _)
CountRows(rs, i, country_imports, country_exports) ==
    IF i > Len(rs) THEN [imports |-> country_imports, exports |-> country_exports]
    ELSE LET country == Strip(rs[i].Country)
             direction == Lower(Strip(rs[i].Import_Export))
         IN  IF direction = ImportText
             THEN CountRows(rs, i + 1, Increment(country_imports, country), country_exports)
             ELSE IF direction = ExportText
             THEN CountRows(rs, i + 1, country_imports, Increment(country_exports, country))
             ELSE CountRows(rs, i + 1, country_imports, country_exports)

\* get_total_import_export_counts(file_path)
get_total_import_export_counts(rs) == CountRows(rs, 1, <<>>, <<>>)

\* max(d, key=d.get) scans the keys in order and keeps the first greatest
RECURSIVE MaxFrom(_, _, _)
MaxFrom(d, i, best) ==
    IF i > Len(d) THEN best
    ELSE MaxFrom(d, i + 1, IF d[i].count > d[best].count THEN i ELSE best)

\* the branch of show_highest_import_export for one mapping: the entry it
\* prints, or the ValueError that max() raises on an empty mapping
Highest(d) ==
    IF d = <<>> THEN [kind |-> "ValueError", highest |-> <<>>]
    ELSE [kind |-> "printed", highest |-> <<d[MaxFrom(d, 1, 1)]>>]

\* show_highest_import_export(file_path) with the choice typed at its prompt
show_highest_import_export(rs, choice) ==
    LET counts == get_total_import_export_counts(rs) IN
    IF choice = <<"1">> THEN Highest(counts.imports)
    ELSE IF choice = <<"2">> THEN Highest(counts.exports)
    ELSE [kind |-> "invalid", highest |-> <<>>]

\* the rows the file is made of: Country and Import_Export columns
RowCountries == {<<"U">>, <<" ", "U">>, <<"T">>}
RowDirections ==
    {<<"I", "m", "p", "o", "r", "t">>, <<"E", "x", "p", "o", "r", "t", " ">>, <<"x">>}
FileRows == {[Country |-> c, Import_Export |-> d] : c \in RowCountries, d \in RowDirections}

InitInsight ==
    /\ rows \in SeqsUpTo(FileRows, MaxRows)
    /\ transactions = <<>>
    /\ pc = "ready"
    /\ last = NoCall
    /\ session = NoSession

TotalCounts ==
    /\ pc = "ready"
    /\ LET r == get_total_import_export_counts(rows) IN
       last' = [op |-> "counts",
                args |-> NoArgs,
                ret |-> [RetNone EXCEPT !.kind = "dicts",
                                        !.imports = r.imports,
                                        !.exports = r.exports],
                pre |-> transactions]
    /\ pc' = "returned"
    /\ UNCHANGED <<transactions, rows, session>>

ShowHighest ==
    /\ pc = "ready"
    /\ \E choice \in {<<"1">>, <<"2">>, <<"3">>} :
        LET r == show_highest_import_export(rows, choice)
            counts == get_total_import_export_counts(rows)
        IN  last' = [op |-> "highest",
                     args |-> [NoArgs EXCEPT !.transaction_ID = choice],
                     ret |-> [RetNone EXCEPT !.kind = r.kind,
                                             !.imports = counts.imports,
                                             !.exports = counts.exports,
                                             !.highest = r.highest],
                     pre |-> transactions]
    /\ pc' = "returned"
    /\ UNCHANGED <<transactions, rows, session>>

NextInsight == TotalCounts \/ ShowHighest \/ Return

SpecInsight == InitInsight /\ [][NextInsight]_vars

(***************************************************************************)
(* main(): the menu session.  Its locals live in session: filtered (the    *)
(* list the last filter command returned), filtered_created, and date (the *)
(* date the last add or update command parsed).  filtered holds the very   *)
(* Transaction objects of the Store: an entry is [t, at], at the index of  *)
(* the object in the Store, or 0 once it has been deleted from the Store.  *)
(* An exception no handler catches ends the session: pc = "crashed".       *)
(***************************************************************************)
\* datetime.strptime(date, "%d-%m-%Y") on the texts the model types in
parse_date(date) ==
    CASE date = <<"1">> -> [kind |-> "datetime", n |-> 1]
      [] date = <<"2">> -> [kind |-> "datetime", n |-> 2]
      [] OTHER          -> [kind |-> "ValueError", n |-> 0]

\* float(text) on the texts the model types in
float(text) ==
    CASE text = <<"0">> -> [kind |-> "float", n |-> 0]
      [] text = <<"1">> -> [kind |-> "float", n |-> 1]
      [] text = <<"2">> -> [kind |-> "float", n |-> 2]
      [] OTHER          -> [kind |-> "ValueError", n |-> 0]

\* `if value: value = float(value)`: the text stays when it is empty
OptFloat(text) == IF text = <<>> THEN Str(<<>>) ELSE Num(float(text).n)

\* the Transactions a list of entries holds
ListOf(entries) == [i \in DOMAIN entries |-> entries[i].t]

\* the entries of the list filter_transactions returns
Appended(ts, date_range, country, product, min_value, max_value) ==
    LET at == SelectSeq([i \in DOMAIN ts |-> i],
                        LAMBDA i : FilterOutcome(ts[i], date_range, country, product,
                                                 min_value, max_value) = "append")
    IN  [k \in DOMAIN at |-> [t |-> ts[at[k]], at |-> at[k]]]

\* the entries after the Store object at index i was updated to ts[i]
AfterUpdate(entries, ts, i) ==
    [k \in DOMAIN entries |->
        IF i # 0 /\ entries[k].at = i THEN [t |-> ts[i], at |-> i] ELSE entries[k]]

\* the entries after the Store object at index i was removed from the Store
AfterDelete(entries, i) ==
    [k \in DOMAIN entries |->
        IF i = 0 THEN entries[k]
        ELSE IF entries[k].at = i THEN [entries[k] EXCEPT !.at = 0]
        ELSE IF entries[k].at > i THEN [entries[k] EXCEPT !.at = @ - 1]
        ELSE entries[k]]

\* the unhandled exception that ends the session
Raised(op, args, name) ==
    /\ last' = [op |-> op, args |-> args,
                ret |-> [RetNone EXCEPT !.kind = name], pre |-> transactions]
    /\ pc' = "crashed"

\* a command that came back to the menu
Done(op, args, ret) ==
    /\ last' = [op |-> op, args |-> args, ret |-> ret, pre |-> transactions]
    /\ pc' = "returned"

AscText == <<"a", "s", "c">>
DescText == <<"d", "e", "s", "c">>

\* what the user types at the prompts
MenuIDs == {<<"a">>, <<"b">>}
AddDates == {<<"1">>, <<"x">>}
UpdateProducts == {<<>>, <<"A">>}
UpdateCountries == {<<>>, <<"S">>}
UpdateValues == {<<>>, <<"2">>}
UpdateDates == {<<>>, <<"2">>}
MenuRangeDates == {<<>>, <<"1">>}
MenuFilterCountries == {<<>>, <<"u">>, <<"s">>}
MenuFilterProducts == {<<>>}
MenuFilterMinima == {<<>>, <<"2">>, <<"x">>}
MenuFilterMaxima == {<<>>}
HighestChoices == {<<"1">>, <<"2">>}
ListChoices == {<<"f">>, <<"F">>, <<"a">>, <<"x">>}
Orders == {AscText, DescText, <<"x">>}

MenuStores == {<<>>, <<Transaction(<<"a">>, <<"T">>, <<"U">>, 1, 1)>>}

InitMenu ==
    /\ transactions \in MenuStores
    /\ pc = "ready"
    /\ last = NoCall
    /\ rows = <<[Country |-> <<"U">>, Import_Export |-> <<"I", "m", "p", "o", "r", "t">>]>>
    /\ session = NoSession

\* choice 1: show_highest_import_export(file_path)
MenuHighest ==
    /\ pc = "ready"
    /\ \E choice \in HighestChoices :
        LET r == show_highest_import_export(rows, choice)
            args == [NoArgs EXCEPT !.choice = choice]
        IN  IF r.kind = "ValueError"
            THEN Raised("menu_highest", args, "ValueError")
            ELSE Done("menu_highest", args,
                      [RetNone EXCEPT !.kind = r.kind, !.highest = r.highest])
    /\ UNCHANGED <<transactions, rows, session>>

\* choice 4: filter transactions
MenuFilter ==
    /\ pc = "ready"
    /\ \E start_date \in MenuRangeDates, end_date \in MenuRangeDates,
          country \in MenuFilterCountries, product \in MenuFilterProducts,
          min_value \in MenuFilterMinima, max_value \in MenuFilterMaxima :
        LET ranged == start_date # <<>> /\ end_date # <<>>
            date_range == IF ranged
                          THEN Range(parse_date(start_date).n, parse_date(end_date).n)
                          ELSE NoRange
            low == OptFloat(min_value)
            high == OptFloat(max_value)
            args == [NoArgs EXCEPT !.date_range = date_range,
                                   !.country = Str(country),
                                   !.product = Str(product),
                                   !.min_value = low,
                                   !.max_value = high]
            r == filter_transactions(transactions, date_range, Str(country),
                                     Str(product), low, high)
            filtered == Appended(transactions, date_range, Str(country),
                                 Str(product), low, high)
        IN  IF \/ ranged /\ parse_date(start_date).kind = "ValueError"
               \/ ranged /\ parse_date(end_date).kind = "ValueError"
               \/ min_value # <<>> /\ float(min_value).kind = "ValueError"
               \/ max_value # <<>> /\ float(max_value).kind = "ValueError"
            THEN Raised("menu_filter", args, "ValueError") /\ UNCHANGED session
            ELSE IF r.kind = "TypeError"
            THEN Raised("menu_filter", args, "TypeError") /\ UNCHANGED session
            ELSE /\ Done("menu_filter", args, RetFilter(r))
                 /\ session' = [session EXCEPT
                                  !.filtered_bound = TRUE,
                                  !.filtered = filtered,
                                  !.filtered_created = IF filtered # <<>> THEN TRUE ELSE @]
    /\ UNCHANGED <<transactions, rows>>

\* the list a sort, summary or export command works on: the filtered list
\* for "f" when filtered_created, all transactions for "a", else no list
ChosenList(choice) ==
    IF Lower(choice) = <<"f">> /\ session.filtered_created
    THEN [kind |-> "filtered", list |-> ListOf(session.filtered)]
    ELSE IF Lower(choice) = <<"a">>
    THEN [kind |-> "all", list |-> transactions]
    ELSE [kind |-> "invalid", list |-> <<>>]

\* choice 5: sort transactions by value
MenuSort ==
    /\ pc = "ready"
    /\ \E sort_choice \in ListChoices, order \in Orders :
        LET c == ChosenList(sort_choice)
            args == [NoArgs EXCEPT !.choice = Lower(sort_choice),
                                   !.transactions = c.list,
                                   !.descending = (c.kind # "invalid"
                                                   /\ Lower(order) = DescText)]
        IN  IF c.kind = "invalid"
            THEN Done("menu_sort", args, [RetNone EXCEPT !.kind = "invalid"])
            ELSE IF Lower(order) \notin {AscText, DescText}
            THEN Done("menu_sort", args, [RetNone EXCEPT !.kind = "invalid order"])
            ELSE Done("menu_sort", args,
                      [RetNone EXCEPT
                         !.kind = c.kind,
                         !.list = sort_transactions_by_value(c.list, Lower(order) = DescText)])
    /\ UNCHANGED <<transactions, rows, session>>

\* choice 10: transaction summary
MenuSummary ==
    /\ pc = "ready"
    /\ \E summary_choice \in ListChoices :
        LET c == ChosenList(summary_choice)
            args == [NoArgs EXCEPT !.choice = Lower(summary_choice),
                                   !.transactions = c.list]
        IN  IF c.kind = "invalid"
            THEN Done("menu_summary", args, [RetNone EXCEPT !.kind = "invalid"])
            ELSE Done("menu_summary", args,
                      [RetNone EXCEPT
                         !.kind = c.kind,
                         !.summary = generate_transaction_summary(c.list).summary])
    /\ UNCHANGED <<transactions, rows, session>>

\* choice 11: export transactions to CSV; the rows written are the list
MenuExport ==
    /\ pc = "ready"
    /\ \E export_choice \in ListChoices :
        LET c == ChosenList(export_choice)
            args == [NoArgs EXCEPT !.choice = Lower(export_choice),
                                   !.transactions = c.list]
        IN  IF c.kind = "invalid"
            THEN Done("menu_export", args, [RetNone EXCEPT !.kind = "invalid"])
            ELSE Done("menu_export", args,
                      [RetNone EXCEPT !.kind = c.kind, !.list = c.list])
    /\ UNCHANGED <<transactions, rows, session>>

\* choice 6: add a new transaction
MenuAdd ==
    /\ pc = "ready"
    /\ Len(transactions) < MaxMenuLen
    /\ \E transaction_ID \in {<<"a">>}, product \in Products, country \in Countries,
          value \in {<<"1">>}, date_str \in AddDates :
        LET date == parse_date(date_str)
            args == [NoArgs EXCEPT !.transaction_ID = transaction_ID,
                                   !.product = Str(product),
                                   !.country = Str(country),
                                   !.value = Str(value),
                                   !.date_str = date_str]
        IN  IF float(value).kind = "ValueError" \/ date.kind = "ValueError"
            THEN /\ Raised("menu_add", args, "ValueError")
                 /\ UNCHANGED <<transactions, session>>
            ELSE /\ transactions' = add_transaction(transactions, transaction_ID, product,
                                                    country, float(value).n, date.n)
                 /\ session' = [session EXCEPT !.date_bound = TRUE, !.date = date.n]
                 /\ Done("menu_add", [args EXCEPT !.date = Date(date.n)], RetNone)
    /\ UNCHANGED rows

\* choice 7: update an existing transaction.  date is assigned only when a
\* date was typed; the call reads it whether or not it was.
MenuUpdate ==
    /\ pc = "ready"
    /\ \E transaction_ID \in MenuIDs, product \in UpdateProducts,
          country \in UpdateCountries, value \in UpdateValues, date_str \in UpdateDates :
        LET parsed == parse_date(date_str)
            dated == IF date_str # <<>> /\ parsed.kind = "datetime"
                     THEN [session EXCEPT !.date_bound = TRUE, !.date = parsed.n]
                     ELSE session
            args == [NoArgs EXCEPT !.transaction_ID = transaction_ID,
                                   !.product = Str(product),
                                   !.country = Str(country),
                                   !.value = Str(value),
                                   !.date_str = date_str]
            r == update_transaction(transactions, transaction_ID, Str(country),
                                    Str(product), OptFloat(value), Date(dated.date))
            i == FirstIndex(transactions, transaction_ID, 1)
        IN  IF \/ date_str # <<>> /\ parsed.kind = "ValueError"
               \/ value # <<>> /\ float(value).kind = "ValueError"
            THEN /\ Raised("menu_update", args, "ValueError")
                 /\ session' = dated
                 /\ UNCHANGED transactions
            ELSE IF ~dated.date_bound
            THEN /\ Raised("menu_update", args, "UnboundLocalError")
                 /\ UNCHANGED <<transactions, session>>
            ELSE /\ transactions' = r.transactions
                 /\ session' = [dated EXCEPT
                                  !.filtered = AfterUpdate(@, r.transactions, i)]
                 /\ Done("menu_update", [args EXCEPT !.date = Date(dated.date)],
                         RetBool(r.ret))
    /\ UNCHANGED rows

\* choice 8: delete a transaction
MenuDelete ==
    /\ pc = "ready"
    /\ \E transaction_ID \in MenuIDs :
        LET r == delete_transaction(transactions, transaction_ID)
            i == FirstIndex(transactions, transaction_ID, 1)
        IN  /\ transactions' = r.transactions
            /\ session' = [session EXCEPT !.filtered = AfterDelete(@, i)]
            /\ Done("menu_delete", [NoArgs EXCEPT !.transaction_ID = transaction_ID],
                    RetBool(r.ret))
    /\ UNCHANGED rows

\* choice 9: search transaction by ID
MenuSearch ==
    /\ pc = "ready"
    /\ \E transaction_ID \in MenuIDs :
        Done("menu_search", [NoArgs EXCEPT !.transaction_ID = transaction_ID],
             RetFound(search_transaction_by_id(transactions, transaction_ID)))
    /\ UNCHANGED <<transactions, rows, session>>

\* choice 12: exit
MenuExit ==
    /\ pc = "ready"
    /\ pc' = "exited"
    /\ UNCHANGED <<transactions, last, rows, session>>

NextMenu ==
    \/ MenuHighest \/ MenuFilter \/ MenuSort \/ MenuAdd \/ MenuUpdate \/ MenuDelete
    \/ MenuSearch \/ MenuSummary \/ MenuExport \/ MenuExit \/ Return

SpecMenu == InitMenu /\ [][NextMenu]_vars

(***************************************************************************)
(* Properties of the Store operations, checked under Spec.                 *)
(***************************************************************************)
\* the indices of the Transactions of ts with the id
Matches(ts, transaction_ID) ==
    {i \in DOMAIN ts : ts[i].transaction_ID = transaction_ID}

\* the least index of a non-empty set of indices
Least(S) == CHOOSE i \in S : \A j \in S : i <= j

\* an argument that is neither None nor the empty string
Provided(v) == v.tag # "none" /\ ~(v.tag = "str" /\ v.s = <<>>)

\* C1: no two Records of the Store have the same transaction_ID.
UniqueIDs ==
    \A i, j \in DOMAIN transactions :
        i # j => transactions[i].transaction_ID # transactions[j].transaction_ID

\* C2: when delete_transaction(id) has returned True, a search for the same
\* id on the Store it left finds nothing.
DeleteThenSearchNotFound ==
    (last.op = "delete" /\ last.ret = RetBool(TRUE))
        => search_transaction_by_id(transactions, last.args.transaction_ID) = <<>>

\* C3: add_transaction appends exactly one Record after the earlier ones, and
\* each attribute of that Record equals the argument of the same name.
AddAppendsArguments ==
    last.op = "add"
        => transactions =
               Append(last.pre,
                      [transaction_ID |-> last.args.transaction_ID,
                       country        |-> last.args.country.s,
                       product        |-> last.args.product.s,
                       value          |-> last.args.value.n,
                       date           |-> last.args.date.n])

\* C4: update_transaction on a present id returns True, overwrites on the first
\* Record with the id every attribute whose argument is neither None nor empty,
\* leaves the other attributes and every other Record as they were; on an
\* absent id it returns False and leaves the Store as it was.
UpdateOverwritesProvided ==
    last.op = "update"
        => LET m == Matches(last.pre, last.args.transaction_ID)
               a == last.args
           IN  IF m = {}
               THEN last.ret = RetBool(FALSE) /\ transactions = last.pre
               ELSE /\ last.ret = RetBool(TRUE)
                    /\ Len(transactions) = Len(last.pre)
                    /\ \A i \in DOMAIN last.pre :
                         IF i # Least(m)
                         THEN transactions[i] = last.pre[i]
                         ELSE /\ transactions[i].transaction_ID = last.pre[i].transaction_ID
                              /\ transactions[i].country =
                                   IF Provided(a.country) THEN a.country.s
                                   ELSE last.pre[i].country
                              /\ transactions[i].product =
                                   IF Provided(a.product) THEN a.product.s
                                   ELSE last.pre[i].product
                              /\ transactions[i].value =
                                   IF Provided(a.value) THEN a.value.n
                                   ELSE last.pre[i].value
                              /\ transactions[i].date =
                                   IF Provided(a.date) THEN a.date.n
                                   ELSE last.pre[i].date

\* C5: after update_transaction(id, value=v) on a present id, for every number
\* v >= 0, the Record that search_transaction_by_id(id) returns has value v.
UpdateValueIsStored ==
    (/\ last.op = "update"
     /\ Matches(last.pre, last.args.transaction_ID) # {}
     /\ last.args.value.tag = "num"
     /\ last.args.country = PyNone
     /\ last.args.product = PyNone
     /\ last.args.date = PyNone)
        => LET found == search_transaction_by_id(transactions, last.args.transaction_ID)
           IN  found # <<>> /\ found[1].value = last.args.value.n

\* C6: delete_transaction(id) removes exactly the first Record with the id,
\* keeps every other Record in its order and returns True; when no Record has
\* the id it returns False and leaves the Store as it was.
DeleteRemovesFirstMatch ==
    last.op = "delete"
        => LET m == Matches(last.pre, last.args.transaction_ID) IN
           IF m = {}
           THEN last.ret = RetBool(FALSE) /\ transactions = last.pre
           ELSE /\ last.ret = RetBool(TRUE)
                /\ Len(transactions) = Len(last.pre) - 1
                /\ \A i \in DOMAIN transactions :
                     transactions[i] =
                         IF i < Least(m) THEN last.pre[i] ELSE last.pre[i + 1]

\* a delete that took the middle Record of three and kept the other two
DeleteWitness ==
    /\ last.op = "delete"
    /\ last.ret = RetBool(TRUE)
    /\ Len(last.pre) = 3
    /\ Least(Matches(last.pre, last.args.transaction_ID)) = 2
    /\ transactions = <<last.pre[1], last.pre[3]>>

\* C7: search_transaction_by_id(id) returns the first Record whose id is
\* exactly the id, None when there is none, and leaves the Store as it was.
SearchReturnsFirstMatch ==
    last.op = "search"
        => LET m == Matches(last.pre, last.args.transaction_ID) IN
           /\ transactions = last.pre
           /\ IF m = {}
              THEN last.ret = RetNone
              ELSE /\ last.ret.kind = "Transaction"
                   /\ last.ret.list = <<last.pre[Least(m)]>>

\* a search that found nothing although an id differing only in case is there
SearchWitness ==
    /\ last.op = "search"
    /\ last.ret = RetNone
    /\ \E i \in DOMAIN last.pre :
         Lower(last.pre[i].transaction_ID) = Lower(last.args.transaction_ID)

(***************************************************************************)
(* Properties of filter_transactions, checked under SpecFilter.            *)
(***************************************************************************)
\* a string argument that is not the empty string
IsText(v) == v.tag = "str" /\ v.s # <<>>

\* C8: with no other criterion, a numeric min_value m (0 and negatives
\* included) keeps exactly the Records with value >= m and a numeric
\* max_value M keeps exactly the Records with value <= M.
FilterValueBounds ==
    (/\ last.op = "filter"
     /\ last.args.date_range = NoRange
     /\ last.args.country = PyNone
     /\ last.args.product = PyNone
     /\ last.args.min_value.tag \in {"none", "num"}
     /\ last.args.max_value.tag \in {"none", "num"}
     /\ "num" \in {last.args.min_value.tag, last.args.max_value.tag})
        => /\ last.ret.kind = "list"
           /\ last.ret.list =
                SelectSeq(last.pre,
                          LAMBDA t :
                              /\ last.args.min_value.tag = "num"
                                     => t.value >= last.args.min_value.n
                              /\ last.args.max_value.tag = "num"
                                     => t.value <= last.args.max_value.n)

\* C9: filter_transactions with a non-numeric string as min_value or
\* max_value raises a type error, whatever the Store and the other criteria.
FilterNonNumericRaises ==
    (last.op = "filter" /\ (IsText(last.args.min_value) \/ IsText(last.args.max_value)))
        => last.ret.kind = "TypeError"

\* C10: filter_transactions() with no criteria returns the Records of the
\* Store in the Store's order and leaves the Store as it was.
FilterNoCriteriaReturnsAll ==
    (last.op = "filter" /\ last.args = NoArgs)
        => /\ last.ret.kind = "list"
           /\ last.ret.list = last.pre
           /\ transactions = last.pre

\* a filter without criteria over a Store of two or more Records
FilterNoCriteriaWitness ==
    /\ last.op = "filter"
    /\ last.args = NoArgs
    /\ Len(last.pre) >= 2
    /\ last.ret.list = last.pre

\* the elements of a sequence
Elements(q) == {q[i] : i \in DOMAIN q}

\* the names of the five criteria
CriteriaNames == {"date_range", "country", "product", "min_value", "max_value"}

\* filter_transactions over the Store ts with the criteria of a that F names,
\* the other criteria left out
FilterOn(ts, a, F) ==
    filter_transactions(ts,
        IF "date_range" \in F THEN a.date_range ELSE NoRange,
        IF "country" \in F THEN a.country ELSE PyNone,
        IF "product" \in F THEN a.product ELSE PyNone,
        IF "min_value" \in F THEN a.min_value ELSE PyNone,
        IF "max_value" \in F THEN a.max_value ELSE PyNone)

\* the criteria a call was given (not left at None)
GivenCriteria(a) ==
    {n \in CriteriaNames :
        IF n = "date_range" THEN a.date_range # NoRange ELSE a[n] # PyNone}

\* C11: criteria combine by AND and keep the order: for every split of the
\* criteria given to a call into two sets on different fields, the result is
\* the Store-order subsequence of the Records that both partial filters return.
FilterCombinesByAnd ==
    (/\ last.op = "filter"
     /\ ~IsText(last.args.min_value)
     /\ ~IsText(last.args.max_value))
        => /\ last.ret.kind = "list"
           /\ \A F \in SUBSET GivenCriteria(last.args) :
                LET one == Elements(FilterOn(last.pre, last.args, F).list)
                    other == Elements(FilterOn(last.pre, last.args,
                                               GivenCriteria(last.args) \ F).list)
                IN  last.ret.list = SelectSeq(last.pre, LAMBDA t : t \in one /\ t \in other)

\* a filter by country and product where each criterion alone keeps a Record
\* and the two together keep none
FilterCombinesWitness ==
    /\ last.op = "filter"
    /\ Truthy(last.args.country)
    /\ Truthy(last.args.product)
    /\ last.args.date_range = NoRange
    /\ last.args.min_value = PyNone
    /\ last.args.max_value = PyNone
    /\ last.ret.list = <<>>
    /\ FilterOn(last.pre, last.args, {"country"}).list # <<>>
    /\ FilterOn(last.pre, last.args, {"product"}).list # <<>>

\* a is a proper substring of b, letter case ignored
IsProperSubstring(a, b) ==
    /\ Len(a) < Len(b)
    /\ \E i \in 1..(Len(b) - Len(a) + 1) :
         SubSeq(Lower(b), i, i + Len(a) - 1) = Lower(a)

\* two strings that differ at most in letter case
SameButCase(a, b) ==
    /\ Len(a) = Len(b)
    /\ \A i \in DOMAIN a : LowerChar(a[i]) = LowerChar(b[i])

\* C12: a country (product) criterion given in another letter case returns the
\* same list, and no Record is returned whose country (product) only contains
\* the criterion as a proper substring.
FilterNamesIgnoreCase ==
    last.op = "filter"
        => LET a == last.args IN
           /\ Truthy(a.country) =>
                /\ \A c \in FilterCountries :
                     (Truthy(c) /\ SameButCase(c.s, a.country.s))
                         => RetFilter(filter_transactions(last.pre, a.date_range, c,
                                          a.product, a.min_value, a.max_value))
                              = last.ret
                /\ \A i \in DOMAIN last.ret.list :
                     ~IsProperSubstring(a.country.s, last.ret.list[i].country)
           /\ Truthy(a.product) =>
                /\ \A c \in FilterProducts :
                     (Truthy(c) /\ SameButCase(c.s, a.product.s))
                         => RetFilter(filter_transactions(last.pre, a.date_range,
                                          a.country, c, a.min_value, a.max_value))
                              = last.ret
                /\ \A i \in DOMAIN last.ret.list :
                     ~IsProperSubstring(a.product.s, last.ret.list[i].product)

\* a filter by a country written in another case than the Record it returns,
\* over a Store that also holds a Record whose country only starts with it
FilterNamesWitness ==
    /\ last.op = "filter"
    /\ last.args.country = Str(<<"u">>)
    /\ last.args.product = PyNone
    /\ Len(last.ret.list) = 1
    /\ last.ret.list[1].country = <<"U">>
    /\ \E i \in DOMAIN last.pre :
         IsProperSubstring(last.args.country.s, last.pre[i].country)

\* C13: with a date_range (start, end) and no other criterion the result is
\* exactly the Records with start <= date <= end, both ends included; a range
\* whose end precedes its start or lies below every date returns nothing.
FilterDateRangeInclusive ==
    (/\ last.op = "filter"
     /\ last.args.date_range.given
     /\ last.args.country = PyNone
     /\ last.args.product = PyNone
     /\ last.args.min_value = PyNone
     /\ last.args.max_value = PyNone)
        => /\ last.ret.kind = "list"
           /\ last.ret.list =
                SelectSeq(last.pre,
                          LAMBDA t : /\ last.args.date_range.start <= t.date
                                     /\ t.date <= last.args.date_range.end)
           /\ (\/ last.args.date_range.end < last.args.date_range.start
               \/ \A i \in DOMAIN last.pre : last.args.date_range.end < last.pre[i].date)
                  => last.ret.list = <<>>

\* a range that returns a Record dated its start and a Record dated its end
FilterDateRangeWitness ==
    /\ last.op = "filter"
    /\ last.args = [NoArgs EXCEPT !.date_range = Range(1, 2)]
    /\ Len(last.ret.list) = 2
    /\ last.ret.list[1].date = 1
    /\ last.ret.list[2].date = 2

(***************************************************************************)
(* Properties of sorting and of the summary, checked under SpecReport.     *)
(***************************************************************************)
\* the bijections of 1..n onto itself
Bijections(n) ==
    {p \in [1..n -> 1..n] : \A i, j \in 1..n : i # j => p[i] # p[j]}

\* C14: sort_transactions_by_value returns a permutation of the input ordered
\* by value (non-decreasing, or non-increasing when descending), Records with
\* equal value in their original order, and the input is left as it was.
SortIsStablePermutation ==
    last.op = "sort"
        => /\ transactions = last.pre
           /\ Len(last.ret.list) = Len(last.pre)
           /\ \E p \in Bijections(Len(last.pre)) :
                /\ \A i \in DOMAIN last.pre : last.ret.list[i] = last.pre[p[i]]
                /\ \A i, j \in DOMAIN last.pre :
                     i < j =>
                       /\ IF last.args.descending
                          THEN last.ret.list[i].value >= last.ret.list[j].value
                          ELSE last.ret.list[i].value <= last.ret.list[j].value
                       /\ last.ret.list[i].value = last.ret.list[j].value
                              => p[i] < p[j]

\* a descending sort that moves a Record to the front and keeps two Records
\* of equal value in their order
SortWitness ==
    /\ last.op = "sort"
    /\ last.args.descending
    /\ Len(last.pre) = 3
    /\ last.pre[1] # last.pre[2]
    /\ last.pre[1].value = last.pre[2].value
    /\ last.pre[3].value > last.pre[1].value
    /\ last.ret.list = <<last.pre[3], last.pre[1], last.pre[2]>>

\* the sum of the values of the Records at the indices in S
RECURSIVE SumOver(_, _)
SumOver(ts, S) ==
    IF S = {} THEN 0
    ELSE LET i == CHOOSE x \in S : TRUE IN ts[i].value + SumOver(ts, S \ {i})

\* C15: generate_transaction_summary returns the number of Records, the sum of
\* their values and their quotient, or 0 as the average of an empty list, and
\* raises nothing.
SummaryCountTotalAverage ==
    last.op = "summary"
        => LET sm == last.ret.summary IN
           /\ last.ret.kind = "list"
           /\ sm.count = Len(last.pre)
           /\ sm.total = SumOver(last.pre, DOMAIN last.pre)
           /\ sm.average.den # 0
           /\ IF sm.count > 0
              THEN sm.average.num * sm.count = sm.total * sm.average.den
              ELSE sm.average.num = 0 /\ sm.total = 0

\* the summary of the empty list
SummaryWitness ==
    /\ last.op = "summary"
    /\ last.pre = <<>>
    /\ last.ret.summary = [count |-> 0, total |-> 0, average |-> Quotient(0, 1)]

(***************************************************************************)
(* Properties of the insight functions, checked under SpecInsight.         *)
(***************************************************************************)
\* the country names of the rows, blanks around them removed
RowCountryNames == {Strip(rows[i].Country) : i \in DOMAIN rows}

\* the rows of country c whose direction is the text d
RowsOf(c, d) ==
    {i \in DOMAIN rows :
        Strip(rows[i].Country) = c /\ Lower(Strip(rows[i].Import_Export)) = d}

\* the mapping d has the key k, mapped to n
MapsTo(d, k, n) == \E i \in DOMAIN d : d[i].key = k /\ d[i].count = n

\* C16: every country name of the data is a key of the imports mapping and a
\* key of the exports mapping, mapped to its number of import rows and of
\* export rows (0 when it has none).
EveryCountryCounted ==
    last.op = "counts"
        => \A c \in RowCountryNames :
             /\ MapsTo(last.ret.imports, c, Cardinality(RowsOf(c, ImportText)))
             /\ MapsTo(last.ret.exports, c, Cardinality(RowsOf(c, ExportText)))

\* C17: the highest imports / exports operation yields, for every data set,
\* an entry of the mapping whose count is the greatest and, among equal
\* counts, whose country comes first in the scan of the rows.
HighestAlwaysAnswers ==
    (last.op = "highest" /\ last.args.transaction_ID \in {<<"1">>, <<"2">>})
        => LET d == IF last.args.transaction_ID = <<"1">>
                    THEN last.ret.imports ELSE last.ret.exports
               text == IF last.args.transaction_ID = <<"1">>
                       THEN ImportText ELSE ExportText
           IN  /\ last.ret.kind = "printed"
               /\ Len(last.ret.highest) = 1
               /\ \E i \in DOMAIN d :
                    /\ d[i] = last.ret.highest[1]
                    /\ \A j \in DOMAIN d :
                         /\ d[j].count <= d[i].count
                         /\ (j # i /\ d[j].count = d[i].count)
                              => \E m \in RowsOf(d[i].key, text) :
                                   \A n \in RowsOf(d[j].key, text) : m < n

(***************************************************************************)
(* Properties of the menu session, checked under SpecMenu.                 *)
(***************************************************************************)
\* the menu command that has just been carried out, or has just failed
MenuDid(op) == pc \in {"returned", "crashed"} /\ last.op = op

\* C18: an update command whose date prompt was skipped raises no unhandled
\* error, whatever commands came before it, and leaves the date of the
\* Record it updates as it was; a skipped country, product or value is left
\* as it was too.
UpdateSkippingDateCompletes ==
    (MenuDid("menu_update") /\ last.args.date_str = <<>>)
        => /\ pc = "returned"
           /\ Len(transactions) = Len(last.pre)
           /\ \A i \in DOMAIN last.pre :
                /\ transactions[i].date = last.pre[i].date
                /\ last.args.country.s = <<>> => transactions[i].country = last.pre[i].country
                /\ last.args.product.s = <<>> => transactions[i].product = last.pre[i].product
                /\ last.args.value.s = <<>> => transactions[i].value = last.pre[i].value

\* C19: when a sort, summary or export command takes the "f" option, the
\* filtered list it works on is the list the latest filter command returned
\* and is not empty; when the latest filter command matched nothing, "f" is
\* answered with the invalid-choice message.
FilteredOptionNeedsMatches ==
    (MenuDid("menu_sort") \/ MenuDid("menu_summary") \/ MenuDid("menu_export"))
        /\ last.args.choice = <<"f">>
        => /\ last.ret.kind # "invalid"
                => /\ session.filtered_bound
                   /\ last.args.transactions = ListOf(session.filtered)
                   /\ last.args.transactions # <<>>
           /\ (session.filtered_bound /\ session.filtered = <<>>)
                => last.ret.kind = "invalid"

====
